---- MODULE Spec2Model ----
(***************************************************************************)
(* Model of tailwind.config.js: a CommonJS module whose body is a single   *)
(* assignment of an object literal to module.exports.                      *)
(*                                                                         *)
(* The lifecycle is "authored, then read by an external tool": the module  *)
(* is evaluated (possibly several times, each in its own environment) and  *)
(* the exported object is then read by property access.                    *)
(*                                                                         *)
(* JavaScript values are tagged records.  A string value is the sequence   *)
(* of its characters, so that format properties of color literals and glob *)
(* patterns are decided character by character.  Property names are plain  *)
(* strings.                                                                *)
(***************************************************************************)
EXTENDS Naturals, Sequences, FiniteSets, TLC

\* Number of independent evaluations of the module that are modelled.
NumEvals == 2
\* The clock of an environment ranges over 0..MaxClock.
MaxClock == 1

----------------------------------------------------------------------------
(* JavaScript values *)

Str(chars) == [kind |-> "string", chars |-> chars]
List(items) == [kind |-> "array", items |-> items]
Obj(fields) == [kind |-> "object", fields |-> fields]
Num(n) == [kind |-> "number", val |-> n]
\* A built-in function, named by the object that owns it and its name.
Builtin(owner, name) == [kind |-> "function", owner |-> owner, name |-> name]
\* A built-in prototype object (Object.prototype, Array.prototype, ...).
Prototype(of) == [kind |-> "prototype", of |-> of]
Undefined == [kind |-> "undefined"]
\* An accessor property, get k() { this.a = x; ...; return v }: the value its
\* getter returns and the properties of the object the getter assigns.  A
\* property declared as k: v is a data property and is held as v itself.
Accessor(returns, assigns) ==
  [kind |-> "accessor", returns |-> returns, assigns |-> assigns]
TypeError == [kind |-> "TypeError"]

\* The object literal {} (the initial module.exports of a CommonJS module).
EmptyFields == [k \in {} |-> Undefined]

----------------------------------------------------------------------------
(* The literals of tailwind.config.js *)

\* Variant: darkMode: 'dark' (the variant name written where the strategy goes).
DarkModeVariantName == Str(<<"d","a","r","k">>)

\* darkMode: 'class'
DarkMode == Str(<<"c","l","a","s","s">>)

\* Variant: content: ["./templates/**.html"] (the separator after ** left out).
ContentGlobstarJoined ==
  List(<< Str(<<".","/","t","e","m","p","l","a","t","e","s","/","*","*",
                ".","h","t","m","l">>) >>)

\* content: ["./templates/**/*.html"]
Content ==
  List(<< Str(<<".","/","t","e","m","p","l","a","t","e","s","/","*","*","/",
                "*",".","h","t","m","l">>) >>)

\* Variant: DEFAULT: '#2563eg' (a mistyped digit).
CustomBlueMistyped ==
  Obj( ("light"   :> Str(<<"#","3","b","8","2","f","6">>))
    @@ ("DEFAULT" :> Str(<<"#","2","5","6","3","e","g">>))
    @@ ("dark"    :> Str(<<"#","1","e","4","0","a","f">>)) )

\* Variant: dark: { DEFAULT: '#1e40af' } (a shade that is itself a mapping).
CustomBlueNested ==
  Obj( ("light"   :> Str(<<"#","3","b","8","2","f","6">>))
    @@ ("DEFAULT" :> Str(<<"#","2","5","6","3","e","b">>))
    @@ ("dark"    :> Obj("DEFAULT" :> Str(<<"#","1","e","4","0","a","f">>))) )

\* Variant: the DEFAULT line left out.
CustomBlueNoDefault ==
  Obj( ("light"   :> Str(<<"#","3","b","8","2","f","6">>))
    @@ ("dark"    :> Str(<<"#","1","e","4","0","a","f">>)) )

\* 'custom-blue': { light: '#3b82f6', DEFAULT: '#2563eb', dark: '#1e40af' }
CustomBlue ==
  Obj( ("light"   :> Str(<<"#","3","b","8","2","f","6">>))
    @@ ("DEFAULT" :> Str(<<"#","2","5","6","3","e","b">>))
    @@ ("dark"    :> Str(<<"#","1","e","4","0","a","f">>)) )

\* Variant: 'dark-bg': '#ffffff' (the light-bg line copied and not edited).
ModeColorsCopied ==
     ("light-bg"   :> Str(<<"#","f","f","f","f","f","f">>))
  @@ ("light-text" :> Str(<<"#","1","f","2","9","3","7">>))
  @@ ("dark-bg"    :> Str(<<"#","f","f","f","f","f","f">>))
  @@ ("dark-text"  :> Str(<<"#","f","9","f","a","f","b">>))

\* 'light-bg', 'light-text', 'dark-bg', 'dark-text'
ModeColors ==
     ("light-bg"   :> Str(<<"#","f","f","f","f","f","f">>))
  @@ ("light-text" :> Str(<<"#","1","f","2","9","3","7">>))
  @@ ("dark-bg"    :> Str(<<"#","1","1","1","8","2","7">>))
  @@ ("dark-text"  :> Str(<<"#","f","9","f","a","f","b">>))

\* colors: { 'custom-blue': {...}, 'light-bg': ..., ... }
Colors == Obj( ("custom-blue" :> CustomBlue) @@ ModeColors )

\* theme: { extend: { colors: {...} } }
Theme == Obj( "extend" :> Obj( "colors" :> Colors ) )

\* plugins: []
Plugins == List(<< >>)

\* Variant: an extra top-level key, purge: [] (the key of an older schema).
ConfigWithPurge ==
  Obj( ("darkMode" :> DarkMode)
    @@ ("content"  :> Content)
    @@ ("purge"    :> List(<< >>))
    @@ ("theme"    :> Theme)
    @@ ("plugins"  :> Plugins) )

\* Variant: the plugin list built on first use and kept,
\* get plugins() { return this._plugins = this._plugins || [] }.
ConfigLazyPlugins ==
  Obj( ("darkMode" :> DarkMode)
    @@ ("content"  :> Content)
    @@ ("theme"    :> Theme)
    @@ ("plugins"  :> Accessor(List(<< >>), "_plugins" :> List(<< >>))) )

\* The whole object literal on the right-hand side of module.exports = ...
Config ==
  Obj( ("darkMode" :> DarkMode)
    @@ ("content"  :> Content)
    @@ ("theme"    :> Theme)
    @@ ("plugins"  :> Plugins) )

----------------------------------------------------------------------------
(* Environments and evaluation *)

Evals == 1..NumEvals

\* What an evaluation could depend on: an environment variable and a clock.
NodeEnvValues == {"development", "production"}
Env == [NODE_ENV : NodeEnvValues, now : 0..MaxClock]

\* Variant: darkMode: process.env.NODE_ENV === 'production' ? 'class' : 'media'.
ModuleBodyEnvDependent(e) ==
  IF e.NODE_ENV = "production" THEN Config
  ELSE Obj([Config.fields EXCEPT !["darkMode"] = Str(<<"m","e","d","i","a">>)])

\* The value the module body assigns to module.exports when it is
\* evaluated in environment e: the literal, which mentions nothing of e.
ModuleBody(e) == Config

----------------------------------------------------------------------------
(* Reading the exported object *)

\* Canonical array index property names ("0" names the first element).  No
\* array or string of the literal is longer than 21, so every larger index
\* is out of range.
IndexKey ==
     ("0" :> 1)   @@ ("1" :> 2)   @@ ("2" :> 3)   @@ ("3" :> 4)   @@ ("4" :> 5)
  @@ ("5" :> 6)   @@ ("6" :> 7)   @@ ("7" :> 8)   @@ ("8" :> 9)   @@ ("9" :> 10)
  @@ ("10" :> 11) @@ ("11" :> 12) @@ ("12" :> 13) @@ ("13" :> 14) @@ ("14" :> 15)
  @@ ("15" :> 16) @@ ("16" :> 17) @@ ("17" :> 18) @@ ("18" :> 19) @@ ("19" :> 20)
  @@ ("20" :> 21)

\* The string-named properties of the built-in prototypes the values of the
\* literal inherit from (ECMAScript 2023).
ObjectPrototypeKeys ==
  {"constructor", "__defineGetter__", "__defineSetter__", "hasOwnProperty",
   "__lookupGetter__", "__lookupSetter__", "isPrototypeOf",
   "propertyIsEnumerable", "toString", "valueOf", "__proto__", "toLocaleString"}

ArrayPrototypeKeys ==
  {"constructor", "at", "concat", "copyWithin", "fill", "find", "findIndex",
   "findLast", "findLastIndex", "lastIndexOf", "pop", "push", "reverse", "shift",
   "unshift", "slice", "sort", "splice", "includes", "indexOf", "join", "keys",
   "entries", "values", "forEach", "filter", "flat", "flatMap", "map", "every",
   "some", "reduce", "reduceRight", "toLocaleString", "toString", "toReversed",
   "toSorted", "toSpliced", "with"}

StringPrototypeKeys ==
  {"constructor", "anchor", "at", "big", "blink", "bold", "charAt", "charCodeAt",
   "codePointAt", "concat", "endsWith", "fontcolor", "fontsize", "fixed",
   "includes", "indexOf", "isWellFormed", "italics", "lastIndexOf", "link",
   "localeCompare", "match", "matchAll", "normalize", "padEnd", "padStart",
   "repeat", "replace", "replaceAll", "search", "slice", "small", "split",
   "strike", "sub", "substr", "substring", "sup", "startsWith", "toString",
   "toWellFormed", "trim", "trimStart", "trimLeft", "trimEnd", "trimRight",
   "toLocaleLowerCase", "toLocaleUpperCase", "toLowerCase", "toUpperCase",
   "valueOf"}

\* The property k inherited from the prototype proto ("Object", "Array" or
\* "String"): the constructor, the prototype's own prototype for __proto__,
\* and otherwise the built-in method (trimLeft and trimRight are the
\* functions trimStart and trimEnd).
Inherited(proto, k) ==
  CASE k = "constructor" -> Builtin("globalThis", proto)
    [] k = "__proto__"   -> Prototype("Object")
    [] k = "trimLeft"    -> Builtin(proto, "trimStart")
    [] k = "trimRight"   -> Builtin(proto, "trimEnd")
    [] OTHER             -> Builtin(proto, k)

\* Lookup of k along the prototype chain of a value whose prototype is proto.
FromPrototype(proto, keys, k) ==
  IF k \in keys THEN Inherited(proto, k)
  ELSE IF k = "__proto__" THEN Prototype(proto)
  ELSE IF k \in ObjectPrototypeKeys THEN Inherited("Object", k)
  ELSE Undefined

\* The value of o[k], for o a value of the literal (an object, an array or
\* a string), undefined, or a TypeError under way.  Own properties come
\* first: the declared keys of an object (a data property gives its value,
\* an accessor property what its getter returns), the elements and length
\* of an array, the characters and length of a string; then the prototype
\* chain; a property found nowhere reads as undefined.  A property of
\* undefined is a TypeError.
PropertyValue(o, k) ==
  CASE o.kind = "object" ->
         IF k \in DOMAIN o.fields
         THEN (IF o.fields[k].kind = "accessor" THEN o.fields[k].returns
               ELSE o.fields[k])
         ELSE IF k = "__proto__" THEN Prototype("Object")
         ELSE IF k \in ObjectPrototypeKeys THEN Inherited("Object", k)
         ELSE Undefined
    [] o.kind = "array" ->
         IF k \in DOMAIN IndexKey /\ IndexKey[k] <= Len(o.items)
         THEN o.items[IndexKey[k]]
         ELSE IF k = "length" THEN Num(Len(o.items))
         ELSE FromPrototype("Array", ArrayPrototypeKeys, k)
    [] o.kind = "string" ->
         IF k \in DOMAIN IndexKey /\ IndexKey[k] <= Len(o.chars)
         THEN Str(<< o.chars[IndexKey[k]] >>)
         ELSE IF k = "length" THEN Num(Len(o.chars))
         ELSE FromPrototype("String", StringPrototypeKeys, k)
    [] o.kind \in {"undefined", "TypeError"} -> TypeError

\* The object o after o[k] has been read: a read of an accessor property
\* runs its getter, whose assignments land on o; any other read leaves o as
\* it was.
AfterGet(o, k) ==
  IF o.kind = "object" /\ k \in DOMAIN o.fields /\ o.fields[k].kind = "accessor"
  THEN Obj(o.fields[k].assigns @@ o.fields)
  ELSE o

\* o[k]: the value read and the object after the read.
PropertyGet(o, k) ==
  [result |-> PropertyValue(o, k), after |-> AfterGet(o, k)]

\* The object o with the value under k replaced by v (k is present in o).
WithProperty(o, k, v) ==
  CASE o.kind = "object" /\ k \in DOMAIN o.fields ->
         Obj([o.fields EXCEPT ![k] = v])
    [] o.kind = "array" /\ k \in DOMAIN IndexKey /\ IndexKey[k] <= Len(o.items) ->
         List([o.items EXCEPT ![IndexKey[k]] = v])
    [] OTHER -> o

\* o[p1][p2]...[pn]: the value read and the object after the read (a child
\* object is held by reference, so a change to it shows through its parent).
RECURSIVE GetPath(_, _)
GetPath(o, path) ==
  IF path = << >> THEN [result |-> o, after |-> o]
  ELSE LET g   == PropertyGet(o, Head(path))
           sub == GetPath(g.result, Tail(path))
       IN  [result |-> sub.result,
            after  |-> IF sub.after = g.result THEN g.after
                       ELSE WithProperty(g.after, Head(path), sub.after)]

\* The property names the consuming tool may ask for.
TopKeys == {"darkMode", "content", "theme", "plugins", "purge"}
ColorNames == {"custom-blue", "light-bg", "light-text", "dark-bg", "dark-text",
               "custom-red"}
ShadeKeys == {"light", "DEFAULT", "dark"}
ColorsPath == <<"theme", "extend", "colors">>

ReadPaths ==
       { <<k>> : k \in TopKeys }
  \cup { <<"constructor">>, <<"theme", "toString">>, <<"content", "length">>,
         <<"plugins", "length">>, <<"darkMode", "0">>, <<"darkMode", "length">> }
  \cup { <<"content", "0">>, <<"content", "1">>, <<"theme", "extend">>, ColorsPath }
  \cup { ColorsPath \o <<n>> : n \in ColorNames }
  \cup { ColorsPath \o <<"custom-blue", s>> : s \in ShadeKeys }
  \cup { ColorsPath \o <<n, "DEFAULT">> : n \in {"light-bg", "custom-red"} }

VARIABLES env, pc, exports, observed

vars == <<env, pc, exports, observed>>

Init ==
  /\ env \in [Evals -> Env]
  /\ pc = [i \in Evals |-> "unloaded"]
  /\ exports = [i \in Evals |-> Obj(EmptyFields)]
  /\ observed = [eval |-> 0, path |-> << >>, value |-> Undefined]

\* require('./tailwind.config.js'): run the module body once.
Evaluate(i) ==
  /\ pc[i] = "unloaded"
  /\ exports' = [exports EXCEPT ![i] = ModuleBody(env[i])]
  /\ pc' = [pc EXCEPT ![i] = "loaded"]
  /\ UNCHANGED env
  /\ UNCHANGED observed

\* The consuming tool reads config.p1.p2...pn of a loaded module.
Read(i, path) ==
  /\ pc[i] = "loaded"
  /\ LET r == GetPath(exports[i], path)
     IN  /\ observed' = [eval |-> i, path |-> path, value |-> r.result]
         /\ exports' = [exports EXCEPT ![i] = r.after]
  /\ UNCHANGED env
  /\ UNCHANGED pc

Next ==
  \/ \E i \in Evals : Evaluate(i)
  \/ \E i \in Evals : \E path \in ReadPaths : Read(i, path)

Spec == Init /\ [][Next]_vars

----------------------------------------------------------------------------
(* Vocabulary of the properties *)

Loaded(i) == pc[i] = "loaded"

\* theme.extend.colors of a configuration, as a map from color name to value.
ColorsOf(cfg) == cfg.fields["theme"].fields["extend"].fields["colors"].fields

HexDigits == {"0","1","2","3","4","5","6","7","8","9",
              "a","b","c","d","e","f","A","B","C","D","E","F"}

\* '#' followed by exactly 3 or 6 hexadecimal digits.
IsHexColor(v) ==
  /\ v.kind = "string"
  /\ Len(v.chars) \in {4, 7}
  /\ v.chars[1] = "#"
  /\ \A k \in 2..Len(v.chars) : v.chars[k] \in HexDigits

\* Every color value declared in a colors map: each top-level value that is
\* not a sub-mapping, and each value inside a sub-mapping.
ColorValues(colors) ==
       { colors[n] : n \in { m \in DOMAIN colors : colors[m].kind # "object" } }
  \cup UNION { { colors[n].fields[s] : s \in DOMAIN colors[n].fields } :
               n \in { m \in DOMAIN colors : colors[m].kind = "object" } }

LiteralChars == {"a","b","c","d","e","f","g","h","i","j","k","l","m","n","o",
                 "p","q","r","s","t","u","v","w","x","y","z",
                 "0","1","2","3","4","5","6","7","8","9",".","-","_"}

\* Bracket and brace depth after scanning a prefix; -1 once a closer came
\* before its opener.
RECURSIVE Depth(_, _, _)
Depth(chars, open, close) ==
  IF chars = << >> THEN 0
  ELSE LET c    == chars[Len(chars)]
           rest == Depth(SubSeq(chars, 1, Len(chars) - 1), open, close)
       IN  IF rest < 0 THEN rest
           ELSE IF c = open THEN rest + 1
           ELSE IF c = close THEN rest - 1
           ELSE rest

Balanced(chars, open, close) ==
  /\ Depth(chars, open, close) = 0
  /\ \A k \in 1..Len(chars) : Depth(SubSeq(chars, 1, k), open, close) >= 0

\* A non-empty path of literal characters, '*' and '**', with '**' only as a
\* whole segment and brackets and braces balanced.
IsWellFormedGlob(v) ==
  /\ v.kind = "string"
  /\ Len(v.chars) > 0
  /\ \A k \in 1..Len(v.chars) : v.chars[k] \in LiteralChars \cup {"*", "/"}
  /\ \A k \in 1..(Len(v.chars) - 1) :
       (v.chars[k] = "*" /\ v.chars[k + 1] = "*") =>
         /\ (k = 1 \/ v.chars[k - 1] = "/")
         /\ (k + 1 = Len(v.chars) \/ v.chars[k + 2] = "/")
  /\ Balanced(v.chars, "[", "]")
  /\ Balanced(v.chars, "{", "}")

\* The dark-mode strategies the schema recognizes.
IsDarkModeStrategy(v) ==
  \/ v.kind = "boolean" /\ v.val = FALSE
  \/ v.kind = "string" /\ v.chars \in { <<"m","e","d","i","a">>,
                                        <<"c","l","a","s","s">>,
                                        <<"s","e","l","e","c","t","o","r">> }

\* Resolving a color name without a shade suffix: the value itself, or the
\* DEFAULT entry of its shade sub-mapping.
ResolveColor(colors, n) ==
  IF n \notin DOMAIN colors THEN Undefined
  ELSE IF colors[n].kind = "object"
       THEN (IF "DEFAULT" \in DOMAIN colors[n].fields
             THEN colors[n].fields["DEFAULT"] ELSE Undefined)
       ELSE colors[n]

\* The value a configuration's text declares at a path, by descent through
\* the declared keys and elements alone; undefined where it declares none.
RECURSIVE DeclaredAt(_, _)
DeclaredAt(v, path) ==
  IF path = << >> THEN v
  ELSE LET k == Head(path)
       IN  IF v.kind = "object" /\ k \in DOMAIN v.fields
           THEN DeclaredAt(v.fields[k], Tail(path))
           ELSE IF v.kind = "array" /\ k \in DOMAIN IndexKey
                   /\ IndexKey[k] <= Len(v.items)
           THEN DeclaredAt(v.items[IndexKey[k]], Tail(path))
           ELSE Undefined

IsDeclared(v, path) == DeclaredAt(v, path) # Undefined

\* The background and text token of each display mode.
ModeToken == [light |-> [bg |-> "light-bg", text |-> "light-text"],
              dark  |-> [bg |-> "dark-bg",  text |-> "dark-text"]]

----------------------------------------------------------------------------
(* Properties *)

\* C1: every color value under theme.extend.colors of an exported
\* configuration (top-level values and values inside shade sub-mappings) is
\* '#' followed by exactly 3 or 6 hexadecimal digits.
ColorValuesAreHexLiterals ==
  \A i \in Evals : Loaded(i) =>
    \A v \in ColorValues(ColorsOf(exports[i])) : IsHexColor(v)

ColorValuesAreHexLiterals_Witness ==
  \E i \in Evals :
    /\ Loaded(i)
    /\ Cardinality(ColorValues(ColorsOf(exports[i]))) = 7
    /\ Str(<<"#","2","5","6","3","e","b">>) \in ColorValues(ColorsOf(exports[i]))
    /\ Str(<<"#","f","9","f","a","f","b">>) \in ColorValues(ColorsOf(exports[i]))

\* C2: every entry of the content list of an exported configuration is a
\* syntactically well-formed glob pattern.
ContentGlobsWellFormed ==
  \A i \in Evals : Loaded(i) =>
    LET items == exports[i].fields["content"].items
    IN  \A k \in 1..Len(items) : IsWellFormedGlob(items[k])

ContentGlobsWellFormed_Witness ==
  \E i \in Evals :
    /\ Loaded(i)
    /\ Len(exports[i].fields["content"].items) = 1
    /\ \E k \in 1..20 :
         LET g == exports[i].fields["content"].items[1].chars
         IN  g[k] = "*" /\ g[k + 1] = "*"

\* C3: every color name maps to a single literal or to a sub-mapping whose
\* keys are among light, DEFAULT, dark and whose values are single literals
\* (no mapping nested more than one level deep).
ColorsAreLiteralOrShades ==
  \A i \in Evals : Loaded(i) =>
    LET colors == ColorsOf(exports[i])
    IN  \A n \in DOMAIN colors :
          \/ colors[n].kind = "string"
          \/ /\ colors[n].kind = "object"
             /\ DOMAIN colors[n].fields \subseteq ShadeKeys
             /\ \A s \in DOMAIN colors[n].fields :
                  colors[n].fields[s].kind = "string"

ColorsAreLiteralOrShades_Witness ==
  \E i \in Evals :
    /\ Loaded(i)
    /\ \E n \in DOMAIN ColorsOf(exports[i]) :
         ColorsOf(exports[i])[n].kind = "object"
    /\ \E n \in DOMAIN ColorsOf(exports[i]) :
         ColorsOf(exports[i])[n].kind = "string"

\* C4: the key set of an exported configuration is exactly
\* {darkMode, content, theme, plugins}; content and plugins are lists and
\* theme is a mapping whose only key is extend.
TopLevelKeysRecognized ==
  \A i \in Evals : Loaded(i) =>
    /\ exports[i].kind = "object"
    /\ DOMAIN exports[i].fields = {"darkMode", "content", "theme", "plugins"}
    /\ exports[i].fields["content"].kind = "array"
    /\ exports[i].fields["plugins"].kind = "array"
    /\ exports[i].fields["theme"].kind = "object"
    /\ DOMAIN exports[i].fields["theme"].fields = {"extend"}

TopLevelKeysRecognized_Witness ==
  \E i \in Evals :
    /\ Loaded(i)
    /\ observed.eval = i
    /\ observed.path = <<"plugins">>
    /\ observed.value = List(<< >>)

\* C5: every read step leaves every field of every exported configuration
\* unchanged, so that the configuration still is the authored value, and a
\* read of a declared path observes the value the literal declares there.
\* (A step is Read(i, path) for some i and path exactly when it is
\* Read(observed'.eval, observed'.path).)
ReadsLeaveConfigUnchanged ==
  [][ (observed'.eval \in Evals /\ Read(observed'.eval, observed'.path)) =>
        /\ exports' = exports
        /\ exports'[observed'.eval] = ModuleBody(env[observed'.eval])
        /\ IsDeclared(ModuleBody(env[observed'.eval]), observed'.path) =>
             observed'.value
               = DeclaredAt(ModuleBody(env[observed'.eval]), observed'.path) ]_vars

ReadsLeaveConfigUnchanged_Witness ==
  /\ observed.eval \in Evals
  /\ observed.path = <<"theme", "extend", "colors", "custom-blue", "dark">>
  /\ observed.value = Str(<<"#","1","e","4","0","a","f">>)
  /\ exports[observed.eval] = Config

\* C6: the dark-mode flag of an exported configuration is false or one of
\* 'media', 'class', 'selector'; here it is 'class'.
DarkModeIsClassStrategy ==
  \A i \in Evals : Loaded(i) =>
    /\ IsDarkModeStrategy(exports[i].fields["darkMode"])
    /\ exports[i].fields["darkMode"] = Str(<<"c","l","a","s","s">>)

DarkModeIsClassStrategy_Witness ==
  \E i \in Evals :
    /\ Loaded(i)
    /\ observed.eval = i
    /\ observed.path = <<"darkMode">>
    /\ observed.value.kind = "string"

\* C7: two evaluations of the module, whatever their environments and
\* whatever happened before them, export structurally identical values.
EvaluationsAgree ==
  \A i \in Evals : \A j \in Evals :
    (Loaded(i) /\ Loaded(j)) => exports[i] = exports[j]

EvaluationsAgree_Witness ==
  \E i \in Evals : \E j \in Evals :
    /\ Loaded(i) /\ Loaded(j)
    /\ env[i].NODE_ENV = "production" /\ env[j].NODE_ENV = "development"
    /\ env[i].now # env[j].now
    /\ observed.eval = i

\* C8: every color name that maps to a shade sub-mapping has a DEFAULT
\* entry, so resolving any declared color name without a shade suffix yields
\* a literal color value and never undefined.
ShadedColorsHaveDefault ==
  \A i \in Evals : Loaded(i) =>
    LET colors == ColorsOf(exports[i])
    IN  \A n \in DOMAIN colors :
          /\ colors[n].kind = "object" => "DEFAULT" \in DOMAIN colors[n].fields
          /\ ResolveColor(colors, n).kind = "string"

ShadedColorsHaveDefault_Witness ==
  \E i \in Evals :
    /\ Loaded(i)
    /\ ColorsOf(exports[i])["custom-blue"].kind = "object"
    /\ ResolveColor(ColorsOf(exports[i]), "custom-blue")
         = Str(<<"#","2","5","6","3","e","b">>)

\* C9: for each display mode the background and text tokens are declared
\* and differ, and each token differs between the light and the dark mode.
ModeTokensDistinct ==
  \A i \in Evals : Loaded(i) =>
    LET colors == ColorsOf(exports[i])
    IN  /\ \A m \in DOMAIN ModeToken :
             /\ ModeToken[m].bg \in DOMAIN colors
             /\ ModeToken[m].text \in DOMAIN colors
             /\ ResolveColor(colors, ModeToken[m].bg)
                  # ResolveColor(colors, ModeToken[m].text)
        /\ ResolveColor(colors, "light-bg") # ResolveColor(colors, "dark-bg")
        /\ ResolveColor(colors, "light-text") # ResolveColor(colors, "dark-text")

ModeTokensDistinct_Witness ==
  \E i \in Evals :
    /\ Loaded(i)
    /\ ResolveColor(ColorsOf(exports[i]), "light-bg") = Str(<<"#","f","f","f","f","f","f">>)
    /\ ResolveColor(ColorsOf(exports[i]), "dark-bg") = Str(<<"#","1","1","1","8","2","7">>)
    /\ ResolveColor(ColorsOf(exports[i]), "dark-text").kind = "string"
====
